---------------------------- MODULE Spec2Model ----------------------------
(***************************************************************************)
(* ATS Hub resume analyzer (src/app.py): the script run main() of one      *)
(* Streamlit session.  A script run is a process with a program counter;  *)
(* st.session_state is shared by the runs of the session.                  *)
(*                                                                         *)
(* Python values are tagged tuples; a str is a sequence of one-character  *)
(* strings, a list a sequence of values, a dict a sequence of key/value    *)
(* items in insertion order.                                               *)
(***************************************************************************)
EXTENDS Naturals, Sequences, FiniteSets

(* ------------------------------ bounds --------------------------------- *)

\* Script-run slots of the session (threads that may execute main()).
NumRuns == 2

\* Longest "MissingKeywords" list among the generated model responses.
MaxKeywords == 2

Runs == 1..NumRuns

(* --------------------------- Python values ----------------------------- *)

None == <<"None">>

Unbound == <<"unbound">>

PyStr(cs) == <<"str", cs>>

PyInt(n) == <<"int", n>>

PyBool(b) == <<"bool", b>>

PyList(xs) == <<"list", xs>>

PyDict(items) == <<"dict", items>>

UploadedFile == <<"UploadedFile">>

\* type(x) and the payload of a value.
Ty(x) == x[1]

Val(x) == x[2]

\* The key and the value of a dict item.
ItemKey(it) == it[1]

ItemVal(it) == it[2]

Return(v) == [ok |-> TRUE, val |-> v]

Raise(cls, origin) == [ok |-> FALSE, exc |-> [cls |-> cls, origin |-> origin]]

\* bool(x): None, False, 0 and empty containers are falsy.
Truthy(x) ==
    CASE Ty(x) = "None" -> FALSE
      [] Ty(x) = "bool" -> Val(x)
      [] Ty(x) = "int" -> Val(x) # 0
      [] Ty(x) \in {"str", "list", "dict"} -> Len(Val(x)) > 0
      [] OTHER -> TRUE

(* ----------------------------- json.loads ------------------------------ *)

Quote == "\""

Digits == <<"0", "1", "2", "3", "4", "5", "6", "7", "8", "9">>

IsDigit(c) == \E d \in 1..10 : Digits[d] = c

DigitVal(c) == (CHOOSE d \in 1..10 : Digits[d] = c) - 1

At(s, i) == IF i \in 1..Len(s) THEN s[i] ELSE "EOF"

Matches(s, i, lit) ==
    /\ i + Len(lit) - 1 <= Len(s)
    /\ SubSeq(s, i, i + Len(lit) - 1) = lit

ScanFail == [ok |-> FALSE]

ScanOk(v, n) == [ok |-> TRUE, val |-> v, end |-> n]

RECURSIVE SkipWs(_, _)
SkipWs(s, i) == IF At(s, i) = " " THEN SkipWs(s, i + 1) ELSE i

\* Index of the closing quote at or after i, 0 when the string never ends.
RECURSIVE StrEnd(_, _)
StrEnd(s, i) ==
    IF i > Len(s) THEN 0
    ELSE IF s[i] = Quote THEN i
    ELSE StrEnd(s, i + 1)

\* i is the index after the opening quote.
scanstring(s, i) ==
    LET e == StrEnd(s, i)
    IN  IF e = 0 THEN ScanFail ELSE ScanOk(PyStr(SubSeq(s, i, e - 1)), e + 1)

RECURSIVE NumEnd(_, _)
NumEnd(s, i) == IF IsDigit(At(s, i)) THEN NumEnd(s, i + 1) ELSE i

RECURSIVE NumVal(_)
NumVal(ds) ==
    IF ds = <<>> THEN 0
    ELSE 10 * NumVal(SubSeq(ds, 1, Len(ds) - 1)) + DigitVal(ds[Len(ds)])

\* The integer part of the number pattern: 0 | [1-9][0-9]*.
scannumber(s, i) ==
    IF At(s, i) = "0" THEN ScanOk(PyInt(0), i + 1)
    ELSE LET e == NumEnd(s, i)
         IN  ScanOk(PyInt(NumVal(SubSeq(s, i, e - 1))), e)

\* dict(pairs): a repeated key keeps its place and takes the later value.
DictSet(items, k, v) ==
    IF \E n \in 1..Len(items) : ItemKey(items[n]) = k
    THEN [n \in 1..Len(items) |->
             IF ItemKey(items[n]) = k THEN <<k, v>> ELSE items[n]]
    ELSE Append(items, <<k, v>>)

RECURSIVE scan_once(_, _), JSONArrayLoop(_, _, _), JSONObjectLoop(_, _, _)

\* i is the index of the first character of an element.
JSONArrayLoop(s, i, items) ==
    LET r == scan_once(s, i)
    IN  IF ~r.ok THEN ScanFail
        ELSE LET j == SkipWs(s, r.end)
                 c == At(s, j)
             IN  IF c = "]" THEN ScanOk(PyList(Append(items, r.val)), j + 1)
                 ELSE IF c = ","
                      THEN JSONArrayLoop(s, SkipWs(s, j + 1), Append(items, r.val))
                      ELSE ScanFail

\* i is the index after "[".
JSONArray(s, i) ==
    LET j == SkipWs(s, i)
    IN  IF At(s, j) = "]" THEN ScanOk(PyList(<<>>), j + 1)
        ELSE JSONArrayLoop(s, j, <<>>)

\* i is the index of the opening quote of a key.
JSONObjectLoop(s, i, items) ==
    IF At(s, i) # Quote THEN ScanFail
    ELSE LET key == scanstring(s, i + 1)
         IN  IF ~key.ok THEN ScanFail
             ELSE LET j == SkipWs(s, key.end)
                  IN  IF At(s, j) # ":" THEN ScanFail
                      ELSE LET r == scan_once(s, SkipWs(s, j + 1))
                           IN  IF ~r.ok THEN ScanFail
                               ELSE LET m == SkipWs(s, r.end)
                                        c == At(s, m)
                                        d == DictSet(items, Val(key.val), r.val)
                                    IN  IF c = "}" THEN ScanOk(PyDict(d), m + 1)
                                        ELSE IF c = ","
                                             THEN JSONObjectLoop(s, SkipWs(s, m + 1), d)
                                             ELSE ScanFail

\* i is the index after "{".
JSONObject(s, i) ==
    LET j == SkipWs(s, i)
    IN  IF At(s, j) = "}" THEN ScanOk(PyDict(<<>>), j + 1)
        ELSE JSONObjectLoop(s, j, <<>>)

scan_once(s, i) ==
    LET c == At(s, i)
    IN  CASE c = Quote -> scanstring(s, i + 1)
          [] c = "{" -> JSONObject(s, i + 1)
          [] c = "[" -> JSONArray(s, i + 1)
          [] c = "n" /\ Matches(s, i, <<"n", "u", "l", "l">>) -> ScanOk(None, i + 4)
          [] c = "t" /\ Matches(s, i, <<"t", "r", "u", "e">>) -> ScanOk(PyBool(TRUE), i + 4)
          [] c = "f" /\ Matches(s, i, <<"f", "a", "l", "s", "e">>) -> ScanOk(PyBool(FALSE), i + 5)
          [] IsDigit(c) -> scannumber(s, i)
          [] OTHER -> ScanFail

\* json.loads(x): a non-str argument is a TypeError; leading and trailing
\* whitespace is skipped; anything left after the value is "Extra data".
json_loads(x) ==
    IF Ty(x) # "str" THEN Raise("TypeError", "json.loads")
    ELSE LET s == Val(x)
             r == scan_once(s, SkipWs(s, 1))
         IN  IF ~r.ok THEN Raise("JSONDecodeError", "json.loads")
             ELSE IF SkipWs(s, r.end) # Len(s) + 1
                  THEN Raise("JSONDecodeError", "json.loads")
                  ELSE Return(r.val)

(* ------------------- the Python operations main() uses ----------------- *)

\* d.get(key): the default left out, an absent key gives None.
dict_get_without_default(d, key, default) ==
    IF Ty(d) # "dict" THEN Raise("AttributeError", "get")
    ELSE IF \E n \in 1..Len(Val(d)) : ItemKey(Val(d)[n]) = key
         THEN Return(ItemVal(Val(d)[CHOOSE n \in 1..Len(Val(d)) : ItemKey(Val(d)[n]) = key]))
         ELSE Return(None)

\* d.get(key, default); only a dict has the method.
dict_get(d, key, default) ==
    IF Ty(d) # "dict" THEN Raise("AttributeError", "get")
    ELSE IF \E n \in 1..Len(Val(d)) : ItemKey(Val(d)[n]) = key
         THEN Return(ItemVal(Val(d)[CHOOSE n \in 1..Len(Val(d)) : ItemKey(Val(d)[n]) = key]))
         ELSE Return(default)

\* What iterating x yields: the characters of a str, the items of a list,
\* the keys of a dict.
IterItems(x) ==
    CASE Ty(x) = "str" -> [n \in 1..Len(Val(x)) |-> PyStr(<<Val(x)[n]>>)]
      [] Ty(x) = "list" -> Val(x)
      [] Ty(x) = "dict" -> [n \in 1..Len(Val(x)) |-> PyStr(ItemKey(Val(x)[n]))]

RECURSIVE JoinChars(_, _)
JoinChars(sep, items) ==
    IF items = <<>> THEN <<>>
    ELSE IF Len(items) = 1 THEN Val(items[1])
    ELSE Val(items[1]) \o sep \o JoinChars(sep, Tail(items))

\* sep.join(x): x must be iterable and every item a str.
str_join(sep, x) ==
    IF Ty(x) \notin {"str", "list", "dict"} THEN Raise("TypeError", "join")
    ELSE LET items == IterItems(x)
         IN  IF \E n \in 1..Len(items) : Ty(items[n]) # "str"
             THEN Raise("TypeError", "join")
             ELSE Return(PyStr(JoinChars(sep, items)))

\* st.metric(label, value) takes None, a number or a str.
st_metric(value) ==
    IF Ty(value) \in {"None", "int", "bool", "str"} THEN Return(value)
    ELSE Raise("TypeError", "st.metric")

(* ------------------------- literals of main() -------------------------- *)

KeyJDMatch ==
    <<"J", "D", " ", "M", "a", "t", "c", "h">>

KeyMissingKeywords ==
    <<"M", "i", "s", "s", "i", "n", "g", "K", "e", "y", "w", "o", "r", "d",
      "s">>

KeyProfileSummary ==
    <<"P", "r", "o", "f", "i", "l", "e", " ", "S", "u", "m", "m", "a", "r",
      "y">>

TextNA ==
    <<"N", "/", "A">>

TextNoSummary ==
    <<"N", "o", " ", "s", "u", "m", "m", "a", "r", "y", " ", "a", "v", "a",
      "i", "l", "a", "b", "l", "e">>

TextNoMissing ==
    <<"N", "o", " ", "c", "r", "i", "t", "i", "c", "a", "l", " ", "m", "i",
      "s", "s", "i", "n", "g", " ", "k", "e", "y", "w", "o", "r", "d", "s",
      " ", "f", "o", "u", "n", "d", "!">>

CommaSpace == <<",", " ">>

(* ------------------ the responses of the model client ------------------ *)

RECURSIVE DigitsOf(_)
DigitsOf(n) ==
    IF n < 10 THEN <<Digits[n + 1]>>
    ELSE DigitsOf(n \div 10) \o <<Digits[(n % 10) + 1]>>

\* The JSON text of a value, with the separators ", " and ": ".
RECURSIVE Dumps(_), DumpsList(_), DumpsItems(_)
DumpsList(xs) ==
    IF xs = <<>> THEN <<>>
    ELSE IF Len(xs) = 1 THEN Dumps(xs[1])
    ELSE Dumps(xs[1]) \o CommaSpace \o DumpsList(Tail(xs))

DumpsItems(items) ==
    IF items = <<>> THEN <<>>
    ELSE LET one == <<Quote>> \o ItemKey(items[1]) \o <<Quote, ":", " ">> \o Dumps(ItemVal(items[1]))
         IN  IF Len(items) = 1 THEN one
             ELSE one \o CommaSpace \o DumpsItems(Tail(items))

Dumps(x) ==
    CASE Ty(x) = "None" -> <<"n", "u", "l", "l">>
      [] Ty(x) = "bool" -> IF Val(x) THEN <<"t", "r", "u", "e">>
                         ELSE <<"f", "a", "l", "s", "e">>
      [] Ty(x) = "int" -> DigitsOf(Val(x))
      [] Ty(x) = "str" -> <<Quote>> \o Val(x) \o <<Quote>>
      [] Ty(x) = "list" -> <<"[">> \o DumpsList(Val(x)) \o <<"]">>
      [] Ty(x) = "dict" -> <<"{">> \o DumpsItems(Val(x)) \o <<"}">>

TextMatch ==
    <<"8", "2", "%">>

TextSummary ==
    <<"o", "k">>

TextNotJson ==
    <<"n", "o", "t", " ", "j", "s", "o", "n">>

Words == {<<"D", "o">>, <<"K", "8">>}

\* Lists of keyword strings, the shape the prompt asks for.
KeywordLists ==
    {PyList([n \in 1..Len(ws) |-> PyStr(ws[n])]) :
        ws \in UNION {[1..len -> Words] : len \in 0..MaxKeywords}}

Absent == <<"absent">>

MatchValues == {PyStr(TextMatch), PyInt(82), PyList(<<PyInt(82)>>)}

\* "MissingKeywords" of the asked shape and of other shapes.
KeywordValues ==
    KeywordLists \cup
    {PyStr(<<"a", "b">>), PyInt(5), None, PyList(<<PyInt(1)>>),
     PyDict(<<<<<<"k">>, PyInt(1)>>>>)}

SummaryValues == {PyStr(TextSummary)}

Item(k, v) == IF v = Absent THEN <<>> ELSE <<<<k, v>>>>

Obj(m, k, p) ==
    PyDict(Item(KeyJDMatch, m) \o Item(KeyMissingKeywords, k)
           \o Item(KeyProfileSummary, p))

\* The dicts with each of the three keys present or absent.
ObjectValues ==
    {Obj(m, k, p) :
        m \in MatchValues \cup {Absent},
        k \in KeywordValues \cup {Absent},
        p \in SummaryValues \cup {Absent}}

\* JSON values that are not objects.
NonObjectValues ==
    {PyList(<<PyStr(<<"D", "o">>)>>), PyStr(TextSummary), PyInt(82), None,
     PyBool(TRUE)}

SampleObject ==
    PyDict(<<<<KeyJDMatch, PyStr(TextMatch)>>,
             <<KeyProfileSummary, PyStr(TextSummary)>>>>)

\* Texts that are not JSON: prose, nothing, a truncated object, an object
\* followed by prose, a fenced object, single quotes, trailing commas.
MalformedTexts ==
    {TextNotJson,
     <<>>,
     SubSeq(Dumps(SampleObject), 1, Len(Dumps(SampleObject)) - 1),
     Dumps(SampleObject) \o <<" ">> \o TextSummary,
     <<"`", "`", "`">> \o Dumps(SampleObject) \o <<"`", "`", "`">>,
     <<"{", "'", "a", "'", ":", " ", "1", "}">>,
     <<"[", "1", ",", "]">>,
     <<"{", Quote, "a", Quote, ":", "1", ",", "}">>,
     <<"0", "5">>}

\* JSON texts: the dumps of the values, and one padded with whitespace.
WellFormedTexts ==
    {Dumps(v) : v \in ObjectValues \cup NonObjectValues}
    \cup {<<" ">> \o Dumps(SampleObject) \o <<" ">>}

Responses == {PyStr(s) : s \in WellFormedTexts \cup MalformedTexts}

(* ------------------------ inputs of a script run ----------------------- *)

TextKey == <<"k", "e", "y">>

TextJD == <<"j", "d">>

TextResume == <<"c", "v">>

\* st.secrets["GOOGLE_API_KEY"]: the lookup raises (Absent), or gives an
\* empty or a non-empty value.  The configuration is fixed for a session.
SecretOutcomes == {Absent, PyStr(<<>>), PyStr(TextKey)}

\* os.getenv("GOOGLE_API_KEY"): None when unset.
EnvOutcomes == {None, PyStr(<<>>), PyStr(TextKey)}

\* st.text_area gives "" until something is typed.
JobDescriptions == {PyStr(<<>>), PyStr(TextJD)}

\* st.file_uploader gives None until a file is uploaded.
Uploads == {None, UploadedFile}

(* ------------------------------- state --------------------------------- *)

VARIABLES
    secrets,        \* st.secrets["GOOGLE_API_KEY"]: Absent when the lookup raises
    environ,        \* os.getenv("GOOGLE_API_KEY") once the .env file is loaded
    session_state,  \* st.session_state: a function on the keys that are set
    pc,             \* pc[r]: where script run r is in main()
    frame,          \* frame[r]: the local variables of run r
    page,           \* page[r]: the elements run r has displayed, in order
    calls           \* calls[r]: the helper functions run r has called, in order

vars == <<secrets, environ, session_state, pc, frame, page, calls>>

NoException == [cls |-> "none", origin |-> "none"]

NewFrame ==
    [api_key |-> Unbound, jd |-> Unbound, uploaded_file |-> Unbound,
     resume_text |-> Unbound, input_prompt |-> Unbound, response |-> Unbound,
     response_json |-> Unbound, match_percentage |-> Unbound,
     missing_keywords |-> Unbound, e |-> NoException]

El(kind, text, value) == [kind |-> kind, text |-> text, value |-> value]

\* str(e) of an exception, as an opaque value.
ExcText(exc) == <<"exc", exc.cls, exc.origin>>

\* The classes "except Exception" catches.
IsException(cls) ==
    cls \in {"Exception", "TypeError", "AttributeError", "JSONDecodeError"}

\* Where control goes when exc is raised inside the try block of main().
Handler(exc) == IF IsException(exc.cls) THEN "except" ELSE "finally"

SessionSet(ss, key, value) ==
    [k \in DOMAIN ss \cup {key} |-> IF k = key THEN value ELSE ss[k]]

Init ==
    /\ secrets \in SecretOutcomes
    /\ environ \in EnvOutcomes
    /\ session_state = [k \in {} |-> FALSE]
    /\ pc = [r \in Runs |-> "idle"]
    /\ frame = [r \in Runs |-> NewFrame]
    /\ page = [r \in Runs |-> <<>>]
    /\ calls = [r \in Runs |-> <<>>]

Goto(r, label) == pc' = [pc EXCEPT ![r] = label]

Show(r, els) == page' = [page EXCEPT ![r] = page[r] \o els]

Call(r, name) == calls' = [calls EXCEPT ![r] = Append(calls[r], name)]

NoRunActive == \A q \in Runs : pc[q] = "idle"

(* ------------------------------ main() --------------------------------- *)

\* The session reruns the script: a new run of main() starts.
BeginRun(r) ==
    /\ pc[r] = "idle"
    /\ Goto(r, "init_session_state")
    /\ UNCHANGED <<secrets, environ, session_state, frame, page, calls>>

\* A run starts only when no other run of the session is executing.
SeqBeginRun(r) == NoRunActive /\ BeginRun(r)

InitSessionState(r) ==
    /\ pc[r] = "init_session_state"
    /\ session_state' =
           IF "processing" \notin DOMAIN session_state
           THEN SessionSet(session_state, "processing", FALSE)
           ELSE session_state
    /\ Goto(r, "get_api_key")
    /\ UNCHANGED <<secrets, environ, frame, page, calls>>

\* The secret store first; the environment only when the lookup raises.
get_api_key(secret, env) == IF secret # Absent THEN secret ELSE env

\* A check "if api_key is None" in place of "if not api_key".
KeyIsNone(api_key) == Ty(api_key) = "None"

\* if not api_key
KeyMissing(api_key) == ~Truthy(api_key)

ApiKey(r) ==
    /\ pc[r] = "get_api_key"
    /\ LET api_key == get_api_key(secrets, environ)
       IN  /\ frame' = [frame EXCEPT ![r].api_key = api_key]
           /\ IF KeyMissing(api_key)
              THEN /\ Show(r, <<El("error", "API Key not found. Please check your configuration.", None)>>)
                   /\ Goto(r, "returned")
              ELSE /\ Goto(r, "configure_genai")
                   /\ UNCHANGED page
    /\ UNCHANGED <<secrets, environ, session_state, calls>>

ConfigureGenai(r) ==
    /\ pc[r] = "configure_genai"
    /\ Call(r, "configure_genai")
    /\ \/ /\ Goto(r, "render")
          /\ UNCHANGED page
       \/ /\ Show(r, <<El("error", "Failed to configure API: ",
                          ExcText([cls |-> "Exception", origin |-> "configure_genai"]))>>)
          /\ Goto(r, "returned")
    /\ UNCHANGED <<secrets, environ, session_state, frame>>

RenderInputs(r) ==
    /\ pc[r] = "render"
    /\ \E jd \in JobDescriptions, uploaded_file \in Uploads :
          /\ frame' = [frame EXCEPT ![r].jd = jd, ![r].uploaded_file = uploaded_file]
          /\ Show(r, <<El("title", "ATS Hub Resume Analyzer", None),
                       El("text_area", "Job Description", jd),
                       El("file_uploader", "Resume (PDF)", uploaded_file)>>)
    /\ Goto(r, "button")
    /\ UNCHANGED <<secrets, environ, session_state, calls>>

\* st.button(..., disabled=...): True in the run a click of the enabled
\* button triggered.
st_button(clicked, disabled) == clicked /\ ~disabled

Button(r) ==
    /\ pc[r] = "button"
    /\ \E clicked \in BOOLEAN :
          LET disabled == session_state["processing"]
          IN  /\ Show(r, <<El("button", "Analyze Resume", PyBool(disabled))>>)
              /\ Goto(r, IF st_button(clicked, disabled)
                         THEN "check_inputs" ELSE "returned")
    /\ UNCHANGED <<secrets, environ, session_state, frame, calls>>

\* CheckInputs without the check of the uploaded file.
CheckInputsJdOnly(r) ==
    /\ pc[r] = "check_inputs"
    /\ IF ~Truthy(frame[r].jd)
       THEN /\ Show(r, <<El("warning", "Please provide a job description.", None)>>)
            /\ Goto(r, "returned")
       ELSE /\ Goto(r, "set_processing")
            /\ UNCHANGED page
    /\ UNCHANGED <<secrets, environ, session_state, frame, calls>>

CheckInputs(r) ==
    /\ pc[r] = "check_inputs"
    /\ IF ~Truthy(frame[r].jd)
       THEN /\ Show(r, <<El("warning", "Please provide a job description.", None)>>)
            /\ Goto(r, "returned")
       ELSE IF ~Truthy(frame[r].uploaded_file)
       THEN /\ Show(r, <<El("warning", "Please upload a resume in PDF format.", None)>>)
            /\ Goto(r, "returned")
       ELSE /\ Goto(r, "set_processing")
            /\ UNCHANGED page
    /\ UNCHANGED <<secrets, environ, session_state, frame, calls>>

SetProcessing(r) ==
    /\ pc[r] = "set_processing"
    /\ session_state' = SessionSet(session_state, "processing", TRUE)
    /\ Goto(r, "extract_pdf_text")
    /\ UNCHANGED <<secrets, environ, frame, page, calls>>

\* A helper raised inside the try block.
HelperRaises(r, name) ==
    LET exc == [cls |-> "Exception", origin |-> name]
    IN  /\ frame' = [frame EXCEPT ![r].e = exc]
        /\ Goto(r, Handler(exc))

ExtractPdfText(r) ==
    /\ pc[r] = "extract_pdf_text"
    /\ Call(r, "extract_pdf_text")
    /\ \/ /\ frame' = [frame EXCEPT ![r].resume_text = PyStr(TextResume)]
          /\ Goto(r, "prepare_prompt")
       \/ HelperRaises(r, "extract_pdf_text")
    /\ UNCHANGED <<secrets, environ, session_state, page>>

PreparePrompt(r) ==
    /\ pc[r] = "prepare_prompt"
    /\ Call(r, "prepare_prompt")
    /\ \/ /\ frame' = [frame EXCEPT ![r].input_prompt =
                          PyStr(Val(frame[r].resume_text) \o Val(frame[r].jd))]
          /\ Goto(r, "get_gemini_response")
       \/ HelperRaises(r, "prepare_prompt")
    /\ UNCHANGED <<secrets, environ, session_state, page>>

GetGeminiResponse(r) ==
    /\ pc[r] = "get_gemini_response"
    /\ Call(r, "get_gemini_response")
    /\ \/ \E response \in Responses :
             /\ frame' = [frame EXCEPT ![r].response = response]
             /\ Goto(r, "json_loads")
       \/ HelperRaises(r, "get_gemini_response")
    /\ UNCHANGED <<secrets, environ, session_state, page>>

\* JsonLoads with the early return leaving main() past the finally clause.
JsonLoadsReturnsPastFinally(r) ==
    /\ pc[r] = "json_loads"
    /\ LET res == json_loads(frame[r].response)
       IN  IF res.ok
           THEN /\ frame' = [frame EXCEPT ![r].response_json = res.val]
                /\ Goto(r, "success")
                /\ UNCHANGED page
           ELSE /\ Show(r, <<El("error", "Error parsing response. Please try again.", None)>>)
                /\ Goto(r, "returned")
                /\ UNCHANGED frame
    /\ UNCHANGED <<secrets, environ, session_state, calls>>

\* JsonLoads with the return missing from the JSONDecodeError handler.
JsonLoadsFallsThrough(r) ==
    /\ pc[r] = "json_loads"
    /\ LET res == json_loads(frame[r].response)
       IN  IF res.ok
           THEN /\ frame' = [frame EXCEPT ![r].response_json = res.val]
                /\ Goto(r, "success")
                /\ UNCHANGED page
           ELSE /\ Show(r, <<El("error", "Error parsing response. Please try again.", None)>>)
                /\ Goto(r, "success")
                /\ UNCHANGED frame
    /\ UNCHANGED <<secrets, environ, session_state, calls>>

\* try: json.loads(response) / except json.JSONDecodeError: error, return
JsonLoads(r) ==
    /\ pc[r] = "json_loads"
    /\ LET res == json_loads(frame[r].response)
       IN  IF res.ok
           THEN /\ frame' = [frame EXCEPT ![r].response_json = res.val]
                /\ Goto(r, "success")
                /\ UNCHANGED page
           ELSE IF res.exc.cls = "JSONDecodeError"
           THEN /\ Show(r, <<El("error", "Error parsing response. Please try again.", None)>>)
                /\ Goto(r, "finally")
                /\ UNCHANGED frame
           ELSE /\ frame' = [frame EXCEPT ![r].e = res.exc]
                /\ Goto(r, Handler(res.exc))
                /\ UNCHANGED page
    /\ UNCHANGED <<secrets, environ, session_state, calls>>

ShowSuccess(r) ==
    /\ pc[r] = "success"
    /\ Show(r, <<El("success", "Analysis Complete!", None)>>)
    /\ Goto(r, "match_percentage")
    /\ UNCHANGED <<secrets, environ, session_state, frame, calls>>

MatchPercentage(r) ==
    /\ pc[r] = "match_percentage"
    /\ LET got == dict_get(frame[r].response_json, KeyJDMatch, PyStr(TextNA))
       IN  IF ~got.ok
           THEN /\ frame' = [frame EXCEPT ![r].e = got.exc]
                /\ Goto(r, Handler(got.exc))
                /\ UNCHANGED page
           ELSE LET shown == st_metric(got.val)
                IN  IF ~shown.ok
                    THEN /\ frame' = [frame EXCEPT ![r].match_percentage = got.val,
                                                   ![r].e = shown.exc]
                         /\ Goto(r, Handler(shown.exc))
                         /\ UNCHANGED page
                    ELSE /\ frame' = [frame EXCEPT ![r].match_percentage = got.val]
                         /\ Show(r, <<El("metric", "Match Score", shown.val)>>)
                         /\ Goto(r, "missing_keywords")
    /\ UNCHANGED <<secrets, environ, session_state, calls>>

MissingKeywords(r) ==
    /\ pc[r] = "missing_keywords"
    /\ LET head == El("subheader", "Missing Keywords", None)
           got == dict_get(frame[r].response_json, KeyMissingKeywords, PyList(<<>>))
       IN  IF ~got.ok
           THEN /\ frame' = [frame EXCEPT ![r].e = got.exc]
                /\ Show(r, <<head>>)
                /\ Goto(r, Handler(got.exc))
           ELSE IF Truthy(got.val)
           THEN LET joined == str_join(CommaSpace, got.val)
                IN  IF ~joined.ok
                    THEN /\ frame' = [frame EXCEPT ![r].missing_keywords = got.val,
                                                   ![r].e = joined.exc]
                         /\ Show(r, <<head>>)
                         /\ Goto(r, Handler(joined.exc))
                    ELSE /\ frame' = [frame EXCEPT ![r].missing_keywords = got.val]
                         /\ Show(r, <<head, El("write", "", joined.val)>>)
                         /\ Goto(r, "profile_summary")
           ELSE /\ frame' = [frame EXCEPT ![r].missing_keywords = got.val]
                /\ Show(r, <<head, El("write", "", PyStr(TextNoMissing))>>)
                /\ Goto(r, "profile_summary")
    /\ UNCHANGED <<secrets, environ, session_state, calls>>

ProfileSummary(r) ==
    /\ pc[r] = "profile_summary"
    /\ LET head == El("subheader", "Profile Summary", None)
           got == dict_get(frame[r].response_json, KeyProfileSummary, PyStr(TextNoSummary))
       IN  IF ~got.ok
           THEN /\ frame' = [frame EXCEPT ![r].e = got.exc]
                /\ Show(r, <<head>>)
                /\ Goto(r, Handler(got.exc))
           ELSE /\ Show(r, <<head, El("write", "", got.val)>>)
                /\ Goto(r, "finally")
                /\ UNCHANGED frame
    /\ UNCHANGED <<secrets, environ, session_state, calls>>

\* Except retrying the model call after it failed.
ExceptRetries(r) ==
    /\ pc[r] = "except"
    /\ Show(r, <<El("error", "An error occurred: ", ExcText(frame[r].e))>>)
    /\ frame' = [frame EXCEPT ![r].e = NoException]
    /\ Goto(r, IF frame[r].e.origin = "get_gemini_response"
               THEN "get_gemini_response" ELSE "finally")
    /\ UNCHANGED <<secrets, environ, session_state, calls>>

\* except Exception as e: st.error(...); e is unbound when the clause ends.
Except(r) ==
    /\ pc[r] = "except"
    /\ Show(r, <<El("error", "An error occurred: ", ExcText(frame[r].e))>>)
    /\ frame' = [frame EXCEPT ![r].e = NoException]
    /\ Goto(r, "finally")
    /\ UNCHANGED <<secrets, environ, session_state, calls>>

\* Finally without the reset of the flag.
FinallyKeepsFlag(r) ==
    /\ pc[r] = "finally"
    /\ Goto(r, IF frame[r].e = NoException THEN "returned" ELSE "raised")
    /\ UNCHANGED <<secrets, environ, session_state, frame, page, calls>>

\* finally: the flag is cleared; an exception nothing caught goes on up.
Finally(r) ==
    /\ pc[r] = "finally"
    /\ session_state' = SessionSet(session_state, "processing", FALSE)
    /\ Goto(r, IF frame[r].e = NoException THEN "returned" ELSE "raised")
    /\ UNCHANGED <<secrets, environ, frame, page, calls>>

\* main() is over: its frame is gone, and the next rerun redraws the page.
EndRun(r) ==
    /\ pc[r] \in {"returned", "raised"}
    /\ Goto(r, "idle")
    /\ frame' = [frame EXCEPT ![r] = NewFrame]
    /\ page' = [page EXCEPT ![r] = <<>>]
    /\ calls' = [calls EXCEPT ![r] = <<>>]
    /\ UNCHANGED <<secrets, environ, session_state>>

\* The statements of main() after a run has started.
Step(r) ==
    \/ InitSessionState(r)
    \/ ApiKey(r)
    \/ ConfigureGenai(r)
    \/ RenderInputs(r)
    \/ Button(r)
    \/ CheckInputs(r)
    \/ SetProcessing(r)
    \/ ExtractPdfText(r)
    \/ PreparePrompt(r)
    \/ GetGeminiResponse(r)
    \/ JsonLoads(r)
    \/ ShowSuccess(r)
    \/ MatchPercentage(r)
    \/ MissingKeywords(r)
    \/ ProfileSummary(r)
    \/ Except(r)
    \/ Finally(r)
    \/ EndRun(r)

\* Script runs of the session execute one after the other.
Next == \E r \in Runs : SeqBeginRun(r) \/ Step(r)

Spec == Init /\ [][Next]_vars

\* Script runs of the session overlap: a rerun starts while a run executes.
ConcNext == \E r \in Runs : BeginRun(r) \/ Step(r)

\* A deployment whose secret store holds the key.
ConcInit == Init /\ secrets = PyStr(TextKey) /\ environ = None

ConcSpec == ConcInit /\ [][ConcNext]_vars

(* ------------------------------ properties ---------------------------- *)

Done(r) == pc[r] \in {"returned", "raised"}

Called(r, name) == \E i \in 1..Len(calls[r]) : calls[r][i] = name

Shown(r, kind, text) ==
    \E i \in 1..Len(page[r]) : page[r][i].kind = kind /\ page[r][i].text = text

ResultKinds == {"success", "metric", "subheader", "write"}

ResultShown(r) == \E i \in 1..Len(page[r]) : page[r][i].kind \in ResultKinds

NumErrors(r) == Cardinality({i \in 1..Len(page[r]) : page[r][i].kind = "error"})

\* Line 77 has run: extract_pdf_text is called right after it.
PipelineStarted(r) == Called(r, "extract_pdf_text")

\* C1: a run of main() that set st.session_state.processing to True has
\* finished only with the flag False again, whatever path it left by.
GuardCleared ==
    \A r \in Runs :
        Done(r) /\ PipelineStarted(r) => session_state["processing"] = FALSE

\* A run that raised while rendering the results has finished.
GuardClearedWitness ==
    \E r \in Runs :
        /\ pc[r] = "returned"
        /\ PipelineStarted(r)
        /\ Shown(r, "success", "Analysis Complete!")
        /\ Shown(r, "error", "An error occurred: ")
        /\ session_state["processing"] = FALSE

\* C2: the step that follows a press of the button with an empty job
\* description or no uploaded file ends the run with a warning, no helper of
\* the pipeline called, and st.session_state as it was (processing False).
EmptyInputRejected ==
    [][\A r \in Runs :
          (/\ pc[r] = "check_inputs"
           /\ pc'[r] # "check_inputs"
           /\ (frame[r].jd = PyStr(<<>>) \/ frame[r].uploaded_file = None))
          => /\ pc'[r] = "returned"
             /\ page'[r][Len(page'[r])].kind = "warning"
             /\ calls'[r] = <<"configure_genai">>
             /\ session_state' = session_state
             /\ session_state["processing"] = FALSE]_vars

\* A press with a job description and no file was answered by the warning.
EmptyInputRejectedWitness ==
    \E r \in Runs :
        /\ pc[r] = "returned"
        /\ frame[r].jd = PyStr(TextJD)
        /\ frame[r].uploaded_file = None
        /\ Shown(r, "warning", "Please upload a resume in PDF format.")

NoCredential ==
    /\ secrets \in {Absent, PyStr(<<>>)}
    /\ environ \in {None, PyStr(<<>>)}

\* C3: with no credential in either source, a run that is past get_api_key
\* has returned with the configuration error as its only output and no
\* helper called; and a run whose api_key is falsy never calls
\* configure_genai or get_gemini_response.
FailFastWithoutCredential ==
    \A r \in Runs :
        /\ (NoCredential /\ pc[r] \notin {"idle", "init_session_state", "get_api_key"})
              => /\ pc[r] = "returned"
                 /\ page[r] = <<El("error", "API Key not found. Please check your configuration.", None)>>
                 /\ calls[r] = <<>>
        /\ frame[r].api_key \in {None, PyStr(<<>>)}
              => /\ ~Called(r, "configure_genai")
                 /\ ~Called(r, "get_gemini_response")
                 /\ ~Shown(r, "button", "Analyze Resume")

\* The secret store gave an empty value, the environment nothing, and the
\* run has ended on the configuration error.
FailFastWithoutCredentialWitness ==
    \E r \in Runs :
        /\ secrets = PyStr(<<>>)
        /\ environ = None
        /\ pc[r] = "returned"
        /\ Shown(r, "error", "API Key not found. Please check your configuration.")

ParseErrorText == "Error parsing response. Please try again."

\* C4: once json.loads has acted on a response that is not JSON, the run has
\* shown the parse error as its one error and last output, no result output,
\* and extracted nothing; result output and a parsed value exist only for a
\* response that is JSON.
MalformedResponseRejected ==
    \A r \in Runs :
        /\ (/\ Ty(frame[r].response) = "str"
            /\ pc[r] # "json_loads"
            /\ Val(frame[r].response) \in MalformedTexts)
              => /\ pc[r] \in {"finally", "returned"}
                 /\ page[r][Len(page[r])] = El("error", ParseErrorText, None)
                 /\ NumErrors(r) = 1
                 /\ ~ResultShown(r)
                 /\ Ty(frame[r].response_json) = "unbound"
                 /\ Ty(frame[r].match_percentage) = "unbound"
                 /\ Ty(frame[r].missing_keywords) = "unbound"
        /\ (ResultShown(r) \/ Ty(frame[r].response_json) # "unbound")
              => /\ Ty(frame[r].response) = "str"
                 /\ Val(frame[r].response) \in WellFormedTexts

\* The response "not json" has been answered by the parse error.
MalformedResponseRejectedWitness ==
    \E r \in Runs :
        /\ pc[r] = "returned"
        /\ frame[r].response = PyStr(TextNotJson)
        /\ Shown(r, "error", ParseErrorText)

OrDefault(x, default) == IF x = Absent THEN default ELSE x

\* The keywords with ", " between them, built from the last one backwards.
RECURSIVE ExpectedJoin(_)
ExpectedJoin(ws) ==
    IF Len(ws) = 1 THEN Val(ws[1])
    ELSE ExpectedJoin(SubSeq(ws, 1, Len(ws) - 1)) \o <<",", " ">> \o Val(ws[Len(ws)])

\* The output written right under the subheader `label`.
HasUnder(r, label) ==
    \E i \in 1..(Len(page[r]) - 1) :
        /\ page[r][i] = El("subheader", label, None)
        /\ page[r][i + 1].kind = "write"

Under(r, label) ==
    page[r][(CHOOSE i \in 1..(Len(page[r]) - 1) :
                page[r][i] = El("subheader", label, None)) + 1].value

Metric(r) ==
    page[r][CHOOSE i \in 1..Len(page[r]) : page[r][i].kind = "metric"].value

\* The response that is the JSON text of the object with fields m, k, p.
ObjectText ==
    [m \in MatchValues \cup {Absent},
     k \in KeywordValues \cup {Absent},
     p \in SummaryValues \cup {Absent} |-> PyStr(Dumps(Obj(m, k, p)))]

\* C5: for the response that is the JSON text of an object with any of the
\* three keys present or absent, each field read is the key's own value or
\* that field's default, whatever the other two keys are; the keyword output
\* of a list of strings is the strings joined with ", " in order, and of an
\* empty or absent list the fixed message; a run that ends with displayable
\* fields has displayed all three.
FieldsExtractedIndependently ==
    \A r \in Runs :
        \A m \in MatchValues \cup {Absent},
           k \in KeywordValues \cup {Absent},
           p \in SummaryValues \cup {Absent} :
            frame[r].response = ObjectText[m, k, p] =>
                /\ Ty(frame[r].match_percentage) # "unbound"
                      => frame[r].match_percentage = OrDefault(m, PyStr(TextNA))
                /\ Shown(r, "metric", "Match Score")
                      => Metric(r) = OrDefault(m, PyStr(TextNA))
                /\ Ty(frame[r].missing_keywords) # "unbound"
                      => frame[r].missing_keywords = OrDefault(k, PyList(<<>>))
                /\ (HasUnder(r, "Missing Keywords") /\ k \in KeywordLists \cup {Absent})
                      => Under(r, "Missing Keywords") =
                            IF k # Absent /\ Len(Val(k)) > 0
                            THEN PyStr(ExpectedJoin(Val(k)))
                            ELSE PyStr(TextNoMissing)
                /\ HasUnder(r, "Profile Summary")
                      => Under(r, "Profile Summary") = OrDefault(p, PyStr(TextNoSummary))
                /\ (Done(r) /\ Ty(OrDefault(m, PyStr(TextNA))) # "list"
                            /\ k \in KeywordLists \cup {Absent})
                      => /\ Shown(r, "metric", "Match Score")
                         /\ HasUnder(r, "Missing Keywords")
                         /\ HasUnder(r, "Profile Summary")
                         /\ NumErrors(r) = 0

\* The response {"Profile Summary": "ok"} has been displayed as "N/A", the
\* no-missing-keywords message and "ok".
FieldsExtractedIndependentlyWitness ==
    \E r \in Runs :
        /\ pc[r] = "returned"
        /\ frame[r].response = ObjectText[Absent, Absent, PyStr(TextSummary)]
        /\ Shown(r, "metric", "Match Score")
        /\ Metric(r) = PyStr(TextNA)
        /\ Under(r, "Missing Keywords") = PyStr(TextNoMissing)
        /\ Under(r, "Profile Summary") = PyStr(TextSummary)

\* The responses off the wire shape: not JSON, JSON that is no object, and an
\* object whose "MissingKeywords" is no list of strings.
DeviatingTexts ==
    MalformedTexts
    \cup {Dumps(v) : v \in NonObjectValues}
    \cup {Dumps(Obj(m, k, p)) :
            m \in MatchValues \cup {Absent},
            k \in KeywordValues \ KeywordLists,
            p \in SummaryValues \cup {Absent}}

\* C6: a run that got a response off the wire shape ends on the response
\* format error and displays no result output.
DeviationIsFormatError ==
    \A r \in Runs :
        (/\ Done(r)
         /\ Ty(frame[r].response) = "str"
         /\ Val(frame[r].response) \in DeviatingTexts)
          => /\ pc[r] = "returned"
             /\ Shown(r, "error", ParseErrorText)
             /\ NumErrors(r) = 1
             /\ ~ResultShown(r)

ResultComplete(r) ==
    /\ Shown(r, "success", "Analysis Complete!")
    /\ Shown(r, "metric", "Match Score")
    /\ HasUnder(r, "Missing Keywords")
    /\ HasUnder(r, "Profile Summary")

\* C7: a run that passed the precondition checks ends by returning, with
\* either the whole result displayed and no error, or one error and no
\* result output.
ExactlyOneOutcome ==
    \A r \in Runs :
        (Done(r) /\ PipelineStarted(r))
          => /\ pc[r] = "returned"
             /\ \/ ResultComplete(r) /\ NumErrors(r) = 0
                \/ NumErrors(r) = 1 /\ ~ResultShown(r)

\* Between line 77 and the end of the finally clause.
InFlight(r) ==
    pc[r] \in {"extract_pdf_text", "prepare_prompt", "get_gemini_response",
               "json_loads", "success", "match_percentage", "missing_keywords",
               "profile_summary", "except", "finally"}

\* C8: at most one run of the session is between setting processing to True
\* and clearing it.
SingleFlight == Cardinality({r \in Runs : InFlight(r)}) <= 1

PipelineOrder == <<"extract_pdf_text", "prepare_prompt", "get_gemini_response">>

IsPipelineHelper(name) == name # "configure_genai"

HelperCalls(r) == SelectSeq(calls[r], IsPipelineHelper)

IsPrefix(a, b) == Len(a) <= Len(b) /\ a = SubSeq(b, 1, Len(a))

GenericErrorFrom(r, name) ==
    \E i \in 1..Len(page[r]) :
        page[r][i] = El("error", "An error occurred: ", <<"exc", "Exception", name>>)

Raised(r, name) == frame[r].e.origin = name \/ GenericErrorFrom(r, name)

\* C9: the helpers are called in the order extract, prompt, model call, each
\* at most once and each only after the one before it returned; parsing
\* follows the model's response and display follows parsing; after extraction
\* raised nothing more is called; after the model call raised nothing is
\* parsed or displayed, and the run ends on the generic error alone.
StagesInOrder ==
    \A r \in Runs :
        /\ IsPrefix(HelperCalls(r), PipelineOrder)
        /\ Called(r, "prepare_prompt") => Ty(frame[r].resume_text) = "str"
        /\ Called(r, "get_gemini_response")
              => Ty(frame[r].resume_text) = "str" /\ Ty(frame[r].input_prompt) = "str"
        /\ (Ty(frame[r].response_json) # "unbound" \/ Shown(r, "error", ParseErrorText))
              => Ty(frame[r].response) = "str"
        /\ ResultShown(r) => Ty(frame[r].response_json) # "unbound"
        /\ Raised(r, "extract_pdf_text")
              => /\ HelperCalls(r) = <<"extract_pdf_text">>
                 /\ Ty(frame[r].input_prompt) = "unbound"
                 /\ ~ResultShown(r)
        /\ Raised(r, "get_gemini_response")
              => /\ HelperCalls(r) = PipelineOrder
                 /\ Ty(frame[r].response) = "unbound"
                 /\ Ty(frame[r].response_json) = "unbound"
                 /\ ~ResultShown(r)
                 /\ ~Shown(r, "error", ParseErrorText)
        /\ (Done(r) /\ Called(r, "get_gemini_response") /\ Ty(frame[r].response) = "unbound")
              => GenericErrorFrom(r, "get_gemini_response") /\ NumErrors(r) = 1

\* The model call raised and the run has ended on the generic error.
StagesInOrderWitness ==
    \E r \in Runs :
        /\ pc[r] = "returned"
        /\ HelperCalls(r) = PipelineOrder
        /\ GenericErrorFrom(r, "get_gemini_response")

\* C10: with the runs one after the other, st.session_state.processing is not
\* True when a run starts (it is unset only before the session's first
\* init_session_state) and is False from there to the button; every button
\* displayed is enabled, and a click of it is accepted.
ButtonNeverDisabled ==
    \A r \in Runs :
        /\ pc[r] = "init_session_state"
              => \/ "processing" \notin DOMAIN session_state
                 \/ session_state["processing"] = FALSE
        /\ pc[r] \in {"get_api_key", "configure_genai", "render", "button"}
              => session_state["processing"] = FALSE
        /\ pc[r] = "button" => st_button(TRUE, session_state["processing"])
        /\ \A i \in 1..Len(page[r]) :
              page[r][i].kind = "button" => page[r][i].value = PyBool(FALSE)

\* A run starts in a session that an earlier run has initialised, and finds
\* the flag False.
ButtonNeverDisabledWitness ==
    \E r \in Runs :
        /\ pc[r] = "init_session_state"
        /\ "processing" \in DOMAIN session_state
        /\ session_state["processing"] = FALSE

=============================================================================
